---- MODULE Spec2Model ----
(***************************************************************************)
(* A model of interpret.py: the line-oriented interpreter for declarations,*)
(* assignments, output statements and one-line conditionals.               *)
(*                                                                         *)
(* Text is a sequence of one-character strings.  Numbers are held in       *)
(* eighths (n = 8 * value): every literal of the model is a multiple of    *)
(* 1/8, which binary floating point represents exactly, so the float       *)
(* arithmetic, round() and the '.2f' format of the source are computed     *)
(* exactly on n.  A value is a record [t, n] with t one of "int", "float", *)
(* "tuple" (the value of "()"), "ellipsis" (the value of "...") and "none" *)
(* (None, the unset value of a declared variable), and "tiny": a float of  *)
(* n hundred-thousandths, 0 < |n| < 10, the value of a literal such as     *)
(* 0.00001, which str() writes with an exponent ("1e-05").                 *)
(***************************************************************************)
EXTENDS Integers, Sequences, FiniteSets, TLC

VARIABLES
  pc,        \* where main() is: "run" (inside parse_and_run), "done", "aborted"
  i,         \* number of source lines the loop of parse_and_run has consumed
  line,      \* raw_line of the last iteration (the source line numbered i)
  vars,      \* Interpreter.vars: name -> [typ, val]
  errors,    \* Interpreter.errors: sequence of [line, kind, name]
  outputs,   \* Interpreter.outputs: sequence of texts
  stdout,    \* what main() has printed
  first      \* history: the earlier run over the same source text, when the
             \* program is run twice (kept), step by step, and whether that
             \* run is over and the second one is going

state == <<pc, i, line, vars, errors, outputs, stdout, first>>

\* ------------------------------------------------------------------ bounds

\* Longest source text (in lines) the model runs.
MaxLines == 3

\* Longest source text (in lines) the model runs twice.
MaxTwice == 3

\* ---------------------------------------------------------- characters

Digits == <<"0", "1", "2", "3", "4", "5", "6", "7", "8", "9">>

Digit == {Digits[k] : k \in 1..10}

LowerCase == {"a", "b", "c", "d", "e", "f", "g", "h", "i", "j", "k", "l", "m",
              "n", "o", "p", "q", "r", "s", "t", "u", "v", "w", "x", "y", "z"}

UpperCase == {"D", "E", "I", "O"}

Letter == LowerCase \cup UpperCase

\* \s of the regular expressions
IsSpace(c) == c \in {" ", "\t"}

\* \w of the regular expressions
IsWord(c) == c \in Letter \cup Digit \cup {"_"}

\* re.IGNORECASE on the letters of the model
Lower(c) ==
  CASE c = "D" -> "d"
    [] c = "E" -> "e"
    [] c = "I" -> "i"
    [] c = "O" -> "o"
    [] OTHER -> c

DigitVal(c) == (CHOOSE k \in 1..10 : Digits[k] = c) - 1

RECURSIVE Pow10(_)
Pow10(k) == IF k = 0 THEN 1 ELSE 10 * Pow10(k - 1)

\* The value of a run of digits.
RECURSIVE DigitsVal(_)
DigitsVal(s) ==
  IF s = <<>> THEN 0
  ELSE 10 * DigitsVal(SubSeq(s, 1, Len(s) - 1)) + DigitVal(s[Len(s)])

\* The decimal numeral of a natural number.
RECURSIVE NatStr(_)
NatStr(n) ==
  IF n < 10 THEN <<Digits[n + 1]>>
  ELSE NatStr(n \div 10) \o <<Digits[(n % 10) + 1]>>

Abs(n) == IF n < 0 THEN -n ELSE n

\* ------------------------------------------------------- text scanning

\* str.strip()
RECURSIVE strip(_)
strip(s) ==
  IF s = <<>> THEN s
  ELSE IF IsSpace(s[1]) THEN strip(Tail(s))
  ELSE IF IsSpace(s[Len(s)]) THEN strip(SubSeq(s, 1, Len(s) - 1))
  ELSE s

\* Where a greedy \s* that starts at p stops: the first position from p on
\* that holds no whitespace (Len(s) + 1 at the end of the text).
SkipWs(s, p) ==
  CHOOSE q \in p..(Len(s) + 1) :
    /\ \A r \in p..(q - 1) : IsSpace(s[r])
    /\ q = Len(s) + 1 \/ ~IsSpace(s[q])

\* Where [A-Za-z]\w* that starts at p stops (the position after the name),
\* 0 when no name starts at p.
IdentEnd(s, p) ==
  IF p > Len(s) \/ s[p] \notin Letter THEN 0
  ELSE CHOOSE q \in (p + 1)..(Len(s) + 1) :
         /\ \A r \in (p + 1)..(q - 1) : IsWord(s[r])
         /\ q = Len(s) + 1 \/ ~IsWord(s[q])

\* The literal text lit stands at position p of s.
At(s, p, lit) ==
  /\ p >= 1
  /\ p + Len(lit) - 1 <= Len(s)
  /\ \A k \in 1..Len(lit) : s[p + k - 1] = lit[k]

\* The same, under re.IGNORECASE.
AtNoCase(s, p, lit) ==
  /\ p >= 1
  /\ p + Len(lit) - 1 <= Len(s)
  /\ \A k \in 1..Len(lit) : Lower(s[p + k - 1]) = lit[k]

NoMatch == [ok |-> FALSE, g1 |-> <<>>, g2 |-> <<>>, g3 |-> <<>>]

\* The last position of s that holds no whitespace, 0 when there is none.
LastNonWs(s) ==
  IF \A r \in 1..Len(s) : IsSpace(s[r]) THEN 0
  ELSE CHOOSE q \in 1..Len(s) :
         ~IsSpace(s[q]) /\ \A r \in (q + 1)..Len(s) : IsSpace(s[r])

\* The tail \s*(.+?)\s*;\s*$ of RE_ASSIGN and RE_OUTPUT, from position p:
\* the text ends in ';' and optional whitespace, and at least one character
\* stands between p and that ';'.  g1 is the group.
StmtTail(s, p) ==
  LET e == LastNonWs(s)
  IN  IF e > p /\ s[e] = ";"
      THEN [ok |-> TRUE, g1 |-> strip(SubSeq(s, p, e - 1))]
      ELSE [ok |-> FALSE, g1 |-> <<>>]

\* ------------------------------------------------- the statement patterns

integer == <<"i", "n", "t", "e", "g", "e", "r">>

double == <<"d", "o", "u", "b", "l", "e">>

\* RE_DECL: ^\s*([A-Za-z]\w*)\s*:\s*(integer|double)\s*;\s*$ (IGNORECASE).
\* g1 is the name, g2 the type as parse_and_run lowers it.
RE_DECL(s) ==
  LET p0 == SkipWs(s, 1)
      e  == IdentEnd(s, p0)
      p1 == SkipWs(s, e)
      p2 == SkipWs(s, p1 + 1)
      typ == IF AtNoCase(s, p2, integer) THEN integer
             ELSE IF AtNoCase(s, p2, double) THEN double
             ELSE <<>>
      p3 == SkipWs(s, p2 + Len(typ))
      p4 == SkipWs(s, p3 + 1)
  IN  IF /\ e # 0
         /\ At(s, p1, <<":">>)
         /\ typ # <<>>
         /\ At(s, p3, <<";">>)
         /\ p4 = Len(s) + 1
      THEN [NoMatch EXCEPT !.ok = TRUE, !.g1 = SubSeq(s, p0, e - 1), !.g2 = typ]
      ELSE NoMatch

\* RE_ASSIGN: ^\s*([A-Za-z]\w*)\s*(?::=|=)\s*(.+?)\s*;\s*$.
\* g1 is the name, g2 the expression text.
RE_ASSIGN(s) ==
  LET p0 == SkipWs(s, 1)
      e  == IdentEnd(s, p0)
      p1 == SkipWs(s, e)
      p2 == IF At(s, p1, <<":", "=">>) THEN p1 + 2
            ELSE IF At(s, p1, <<"=">>) THEN p1 + 1
            ELSE 0
      t  == StmtTail(s, p2)
  IN  IF e # 0 /\ p2 # 0 /\ t.ok
      THEN [NoMatch EXCEPT !.ok = TRUE, !.g1 = SubSeq(s, p0, e - 1), !.g2 = t.g1]
      ELSE NoMatch

\* RE_OUTPUT: ^\s*output\s*<<\s*(.+?)\s*;\s*$ (IGNORECASE).  g1 is the payload.
RE_OUTPUT(s) ==
  LET p0 == SkipWs(s, 1)
      p1 == SkipWs(s, p0 + 6)
      t  == StmtTail(s, p1 + 2)
  IN  IF /\ AtNoCase(s, p0, <<"o", "u", "t", "p", "u", "t">>)
         /\ At(s, p1, <<"<", "<">>)
         /\ t.ok
      THEN [NoMatch EXCEPT !.ok = TRUE, !.g1 = t.g1]
      ELSE NoMatch

\* RE_IF: ^\s*if\s*\(\s*(.+?)\s*\)\s*(.+)$ (IGNORECASE).  The lazy group ends
\* at the first ')' that leaves it at least one character and leaves at
\* least one character for the statement.  g1 is the condition text, g2 the
\* statement text.
RE_IF(s) ==
  LET p0 == SkipWs(s, 1)
      p1 == SkipWs(s, p0 + 2)
      a  == p1 + 1
      q  == SkipWs(s, a)
      far == {r \in (q + 1)..(Len(s) - 1) : s[r] = ")"}
      near == {r \in (a + 1)..(Len(s) - 1) : r = q /\ s[r] = ")"}
      ends == IF far # {} THEN far ELSE near
      r  == CHOOSE x \in ends : \A y \in ends : x <= y
  IN  IF /\ AtNoCase(s, p0, <<"i", "f">>)
         /\ At(s, p1, <<"(">>)
         /\ ends # {}
      THEN [NoMatch EXCEPT !.ok = TRUE, !.g1 = SubSeq(s, a, r - 1),
                           !.g2 = SubSeq(s, r + 1, Len(s))]
      ELSE NoMatch

\* RE_COND: ^\s*(.+?)\s*(==|!=|>|<)\s*(.+?)\s*$.  The operator is the first
\* one that stands after at least one character and before at least one.
\* g1, g2, g3 are the left text, the operator and the right text.
CondOpAt(s, q) ==
  IF At(s, q, <<"=", "=">>) /\ q + 1 < Len(s) THEN <<"=", "=">>
  ELSE IF At(s, q, <<"!", "=">>) /\ q + 1 < Len(s) THEN <<"!", "=">>
  ELSE IF At(s, q, <<">">>) /\ q < Len(s) THEN <<">">>
  ELSE IF At(s, q, <<"<">>) /\ q < Len(s) THEN <<"<">>
  ELSE <<>>

RE_COND(s) ==
  LET p0 == SkipWs(s, 1)
      at == {q \in (p0 + 1)..Len(s) : CondOpAt(s, q) # <<>>}
      q  == CHOOSE x \in at : \A y \in at : x <= y
      op == CondOpAt(s, q)
  IN  IF at # {}
      THEN [NoMatch EXCEPT !.ok = TRUE, !.g1 = SubSeq(s, p0, q - 1), !.g2 = op,
                           !.g3 = SubSeq(s, q + Len(op), Len(s))]
      ELSE NoMatch

\* ------------------------------------------------------------- values

None == [t |-> "none", n |-> 0]

IntVal(k) == [t |-> "int", n |-> 8 * k]

FloatVal(n) == [t |-> "float", n |-> n]

TupleVal == [t |-> "tuple", n |-> 0]

EllipsisVal == [t |-> "ellipsis", n |-> 0]

\* A float of k hundred-thousandths, 0 < |k| < 10.
TinyVal(k) == [t |-> "tiny", n |-> k]

IsNumber(v) == v.t \in {"int", "float", "tiny"}

\* A number held in eighths.
InEighths(v) == v.t \in {"int", "float"}

\* A number in hundred-thousandths, the unit in which numbers are compared.
Scaled(v) == IF v.t = "tiny" THEN v.n ELSE 12500 * v.n

\* float.is_integer() of a number
IsWhole(v) == v.t # "tiny" /\ v.n % 8 = 0

\* The digits repr() prints after the point for the fraction r/8, r in 0..7:
\* the three digits of 125 * r without their trailing zeros ("0" for none).
FracDigits(r) ==
  LET m == 125 * r
      d3 == <<Digits[(m \div 100) + 1], Digits[((m \div 10) % 10) + 1],
              Digits[(m % 10) + 1]>>
  IN  IF m % 100 = 0 THEN <<d3[1]>>
      ELSE IF m % 10 = 0 THEN <<d3[1], d3[2]>>
      ELSE d3

\* str(val) of a stored value: the numeral of an int, the shortest repr of
\* a float ("7.0", "2.5", "-0.125"), which below 0.0001 is in exponent
\* notation ("1e-05").
str(v) ==
  LET sign == IF v.n < 0 THEN <<"-">> ELSE <<>>
      m == Abs(v.n)
  IN  CASE v.t = "int" -> sign \o NatStr(m \div 8)
        [] v.t = "float" -> sign \o NatStr(m \div 8) \o <<".">> \o FracDigits(m % 8)
        [] v.t = "tiny" -> sign \o NatStr(m) \o <<"e", "-", "0", "5">>
        [] v.t = "tuple" -> <<"(", ")">>
        [] v.t = "ellipsis" -> <<"E", "l", "l", "i", "p", "s", "i", "s">>
        [] OTHER -> <<"N", "o", "n", "e">>

\* ----------------------------------------- Python's eval on the final text

Tok(k, c, v) == [k |-> k, c |-> c, v |-> v]

LexError == <<Tok("error", "", None)>>

\* Where a run of digits that starts at p stops.
DigitsEnd(s, p) ==
  CHOOSE q \in p..(Len(s) + 1) :
    /\ \A r \in p..(q - 1) : s[r] \in Digit
    /\ q = Len(s) + 1 \/ s[q] \notin Digit

\* The float written as the digits ip, a point and the digits fp: a number
\* of eighths, or one to nine hundred-thousandths ("0.00001").
FloatLit(ip, fp) ==
  IF DigitsVal(ip) = 0 /\ Len(fp) = 5 /\ DigitsVal(fp) \in 1..9
  THEN TinyVal(DigitsVal(fp))
  ELSE FloatVal(8 * DigitsVal(ip) + (8 * DigitsVal(fp)) \div Pow10(Len(fp)))

\* The tokens Python's tokenizer makes of text over digits, '.', '+', '-',
\* parentheses and whitespace, from position p; LexError closes the
\* sequence where the tokenizer raises SyntaxError.
RECURSIVE Lex(_, _)
Lex(s, p) ==
  IF p > Len(s) THEN <<>>
  ELSE IF IsSpace(s[p]) THEN Lex(s, p + 1)
  ELSE IF s[p] \in {"+", "-", "(", ")"} THEN <<Tok("op", s[p], None)>> \o Lex(s, p + 1)
  ELSE IF s[p] \in Digit THEN
    LET e == DigitsEnd(s, p)
        ip == SubSeq(s, p, e - 1)
    IN  IF e <= Len(s) /\ s[e] = "."
        THEN LET f == DigitsEnd(s, e + 1)
             IN  <<Tok("num", "", FloatLit(ip, SubSeq(s, e + 1, f - 1)))>> \o Lex(s, f)
        ELSE IF Len(ip) > 1 /\ ip[1] = "0" /\ DigitsVal(ip) # 0
        THEN LexError    \* leading zeros in a decimal integer literal
        ELSE <<Tok("num", "", IntVal(DigitsVal(ip)))>> \o Lex(s, e)
  ELSE IF s[p] = "." /\ p < Len(s) /\ s[p + 1] \in Digit THEN
    LET f == DigitsEnd(s, p + 1)
    IN  <<Tok("num", "", FloatLit(<<>>, SubSeq(s, p + 1, f - 1)))>> \o Lex(s, f)
  ELSE IF At(s, p, <<".", ".", ".">>) THEN <<Tok("num", "", EllipsisVal)>> \o Lex(s, p + 3)
  ELSE LexError

Failed == [ok |-> FALSE, v |-> None, p |-> 0]

Parsed(v, p) == [ok |-> TRUE, v |-> v, p |-> p]

IsOp(t, p, c) == p <= Len(t) /\ t[p].k = "op" /\ t[p].c = c

\* a + b and a - b; TypeError (Failed) for operands Python cannot combine.
\* The sum of a tiny float and another number is no value of the model (it
\* is no multiple of 1/8 and no exact float): no text of the model adds one.
Plus(a, b) ==
  CASE InEighths(a) /\ InEighths(b) ->
         Parsed([t |-> IF a.t = "int" /\ b.t = "int" THEN "int" ELSE "float",
                 n |-> a.n + b.n], 0)
    [] a.t = "tuple" /\ b.t = "tuple" -> Parsed(TupleVal, 0)
    [] ~IsNumber(a) \/ ~IsNumber(b) -> Failed

Minus(a, b) ==
  CASE InEighths(a) /\ InEighths(b) ->
         Parsed([t |-> IF a.t = "int" /\ b.t = "int" THEN "int" ELSE "float",
                 n |-> a.n - b.n], 0)
    [] ~IsNumber(a) \/ ~IsNumber(b) -> Failed

\* Python's grammar on these tokens: a sum of factors, a factor a signed
\* factor or an atom, an atom a number, '...', '()' or a parenthesised sum.
\* An atom followed by '(' is a call of a number or a tuple: TypeError.
RECURSIVE ParseSum(_, _), SumRest(_, _, _), ParseFactor(_, _)
ParseFactor(t, p) ==
  IF p > Len(t) THEN Failed
  ELSE IF IsOp(t, p, "+") \/ IsOp(t, p, "-") THEN
    LET r == ParseFactor(t, p + 1)
    IN  IF ~r.ok \/ ~IsNumber(r.v) THEN Failed
        ELSE IF t[p].c = "-" THEN Parsed([r.v EXCEPT !.n = -r.v.n], r.p)
        ELSE r
  ELSE
    LET a == IF t[p].k = "num" THEN Parsed(t[p].v, p + 1)
             ELSE IF IsOp(t, p, "(") /\ IsOp(t, p + 1, ")") THEN Parsed(TupleVal, p + 2)
             ELSE IF IsOp(t, p, "(") THEN
               LET r == ParseSum(t, p + 1)
               IN  IF r.ok /\ IsOp(t, r.p, ")") THEN Parsed(r.v, r.p + 1) ELSE Failed
             ELSE Failed
    IN  IF a.ok /\ IsOp(t, a.p, "(") THEN Failed ELSE a

SumRest(t, acc, p) ==
  IF IsOp(t, p, "+") \/ IsOp(t, p, "-") THEN
    LET r == ParseFactor(t, p + 1)
        v == IF t[p].c = "+" THEN Plus(acc, r.v) ELSE Minus(acc, r.v)
    IN  IF r.ok /\ v.ok THEN SumRest(t, v.v, r.p) ELSE Failed
  ELSE Parsed(acc, p)

ParseSum(t, p) ==
  LET r == ParseFactor(t, p)
  IN  IF r.ok THEN SumRest(t, r.v, r.p) ELSE Failed

\* eval(expr_sub, ...): the value, or Failed for any exception it raises.
eval(s) ==
  LET t == Lex(s, 1)
      r == ParseSum(t, 1)
  IN  IF r.ok /\ r.p = Len(t) + 1 THEN r ELSE Failed

\* ---------------------------------------------------------- eval_expr

\* One diagnostic: the line it is for, which message it is, and the name or
\* text the message quotes.
Diag(lineno, kind, arg) == [line |-> lineno, kind |-> kind, arg |-> arg]

\* Interpreter.error: the diagnostic is appended.
error(errs, kind, arg, lineno) == Append(errs, Diag(lineno, kind, arg))

\* The characters eval_expr allows in an expression.
Legal == Letter \cup Digit \cup {".", "+", "-", "(", ")", " ", "\t"}

\* The characters it allows after the substitution.
LegalAfter == Digit \cup {".", "+", "-", "(", ")", " ", "\t"}

NoFault == [kind |-> "", arg |-> <<>>]

Fault(kind, arg) == [kind |-> kind, arg |-> arg]

\* var_repl with a silent default: an unset variable is replaced by 0.
RECURSIVE var_repl_default(_, _, _)
var_repl_default(s, p, store) ==
  IF p > Len(s) THEN [ok |-> TRUE, out |-> <<>>, fault |-> NoFault]
  ELSE IF s[p] \in Letter /\ (p = 1 \/ ~IsWord(s[p - 1])) THEN
    LET e == IdentEnd(s, p)
        name == SubSeq(s, p, e - 1)
        rest == var_repl_default(s, e, store)
    IN  IF name \notin DOMAIN store
        THEN [ok |-> FALSE, out |-> <<>>, fault |-> Fault("undeclared_in_expr", name)]
        ELSE IF ~rest.ok THEN rest
        ELSE IF store[name].val = None THEN [rest EXCEPT !.out = <<"0">> \o rest.out]
        ELSE [rest EXCEPT !.out = str(store[name].val) \o rest.out]
  ELSE LET rest == var_repl_default(s, p + 1, store)
       IN  IF rest.ok THEN [rest EXCEPT !.out = <<s[p]>> \o rest.out] ELSE rest

\* re.sub(r'\b[A-Za-z]\w*\b', var_repl, expr) from position p: every name
\* that starts at a word boundary is replaced by str() of its value; the
\* first name that is unset or undeclared ends the substitution with its
\* diagnostic (var_repl records it and raises ValueError).
RECURSIVE var_repl(_, _, _)
var_repl(s, p, store) ==
  IF p > Len(s) THEN [ok |-> TRUE, out |-> <<>>, fault |-> NoFault]
  ELSE IF s[p] \in Letter /\ (p = 1 \/ ~IsWord(s[p - 1])) THEN
    LET e == IdentEnd(s, p)
        name == SubSeq(s, p, e - 1)
    IN  IF name \notin DOMAIN store
        THEN [ok |-> FALSE, out |-> <<>>, fault |-> Fault("undeclared_in_expr", name)]
        ELSE IF store[name].val = None
        THEN [ok |-> FALSE, out |-> <<>>, fault |-> Fault("used_before_assignment", name)]
        ELSE LET rest == var_repl(s, e, store)
             IN  IF rest.ok THEN [rest EXCEPT !.out = str(store[name].val) \o rest.out]
                 ELSE rest
  ELSE LET rest == var_repl(s, p + 1, store)
       IN  IF rest.ok THEN [rest EXCEPT !.out = <<s[p]>> \o rest.out] ELSE rest

\* Lines 207-214 of eval_expr: the value r that eval returns for the
\* substituted text, or the diagnostic of the exception it raises.
eval_value(expr, r) ==
  IF r.ok THEN [ok |-> TRUE, val |-> r.v, fault |-> NoFault]
  ELSE [ok |-> FALSE, val |-> None, fault |-> Fault("eval_error", expr)]

\* Lines 201-208 of eval_expr, on the outcome sub of the substitution: a
\* ValueError of var_repl ends the evaluation, a character that is left and
\* is not legal is a diagnostic, and what remains is evaluated.
eval_substituted(expr, sub) ==
  IF ~sub.ok THEN [ok |-> FALSE, val |-> None, fault |-> sub.fault]
  ELSE IF \E k \in 1..Len(sub.out) : sub.out[k] \notin LegalAfter
  THEN [ok |-> FALSE, val |-> None, fault |-> Fault("illegal_after_subst", sub.out)]
  ELSE eval_value(expr, eval(sub.out))

\* eval_expr with the names looked up before the characters are checked.
eval_expr_looks_up_first(expr, store) ==
  IF ~var_repl(expr, 1, store).ok
  THEN [ok |-> FALSE, val |-> None, fault |-> var_repl(expr, 1, store).fault]
  ELSE IF \E k \in 1..Len(expr) : expr[k] \notin Legal
  THEN [ok |-> FALSE, val |-> None, fault |-> Fault("illegal_char", expr)]
  ELSE eval_substituted(expr, var_repl(expr, 1, store))

\* eval_expr(expr, lineno): (val, ok) and the diagnostic it records, if any.
eval_expr(expr, store) ==
  IF \E k \in 1..Len(expr) : expr[k] \notin Legal
  THEN [ok |-> FALSE, val |-> None, fault |-> Fault("illegal_char", expr)]
  ELSE eval_substituted(expr, var_repl(expr, 1, store))

\* ----------------------------------------------------- eval_condition

\* lv op rv as Python compares: numbers by value; a tuple or Ellipsis is
\* equal only to its own kind and has no order with a number (TypeError).
Compare(op, lv, rv) ==
  LET same == \/ IsNumber(lv) /\ IsNumber(rv) /\ Scaled(lv) = Scaled(rv)
              \/ ~IsNumber(lv) /\ lv.t = rv.t
      ordered == \/ IsNumber(lv) /\ IsNumber(rv)
                 \/ lv.t = "tuple" /\ rv.t = "tuple"
  IN  CASE op = <<"=", "=">> -> [ok |-> TRUE, res |-> same, fault |-> NoFault]
        [] op = <<"!", "=">> -> [ok |-> TRUE, res |-> ~same, fault |-> NoFault]
        [] op = <<">">> ->
             IF ordered THEN [ok |-> TRUE, res |-> Scaled(lv) > Scaled(rv), fault |-> NoFault]
             ELSE [ok |-> FALSE, res |-> FALSE, fault |-> Fault("cond_error", op)]
        [] op = <<"<">> ->
             IF ordered THEN [ok |-> TRUE, res |-> Scaled(lv) < Scaled(rv), fault |-> NoFault]
             ELSE [ok |-> FALSE, res |-> FALSE, fault |-> Fault("cond_error", op)]
        [] OTHER -> [ok |-> FALSE, res |-> FALSE, fault |-> Fault("unsupported_op", op)]

\* Lines 223-243 of eval_condition, on the outcomes lv and rv of evaluating
\* the two sides: the first side that fails ends the evaluation.
eval_sides(op, lv, rv) ==
  IF ~lv.ok THEN [ok |-> FALSE, res |-> FALSE, fault |-> lv.fault]
  ELSE IF ~rv.ok THEN [ok |-> FALSE, res |-> FALSE, fault |-> rv.fault]
  ELSE Compare(op, lv.val, rv.val)

\* Lines 218-228 of eval_condition, on the match m of RE_COND.
eval_matched(cond, m, store) ==
  IF ~m.ok THEN [ok |-> FALSE, res |-> FALSE, fault |-> Fault("invalid_cond", cond)]
  ELSE eval_sides(m.g2, eval_expr(strip(m.g1), store), eval_expr(strip(m.g3), store))

\* eval_condition(cond, lineno): ok is "cond_ok is not None", res is cond_res.
eval_condition(cond, store) == eval_matched(cond, RE_COND(cond), store)

\* ------------------------------------------- conversion and formatting

\* round() of n eighths: the nearest whole number, a tie going to the even
\* one (Python 3 rounds half to even).
round(n) ==
  LET q == n \div 8
      r == n % 8
  IN  IF r < 4 THEN q
      ELSE IF r > 4 THEN q + 1
      ELSE IF q % 2 = 0 THEN q ELSE q + 1

\* int_round without the conversion: the value as it was evaluated.
int_unrounded(val) == val

\* int(round(float(val))) of a number: a tiny float rounds to 0.
int_round(val) == IF val.t = "tiny" THEN IntVal(0) ELSE IntVal(round(val.n))

\* float(val) of a number
float(val) == IF val.t = "tiny" THEN val ELSE FloatVal(val.n)

\* f"{val:.2f}" of n eighths: the hundredths nearest to the value, a tie
\* going to the even one, printed with two digits after the point.
Format2f(n) ==
  LET m == 25 * Abs(n)
      q == m \div 2
      h == IF m % 2 = 0 THEN q ELSE IF q % 2 = 0 THEN q ELSE q + 1
  IN  (IF n < 0 THEN <<"-">> ELSE <<>>)
        \o NatStr(h \div 100) \o <<".">>
        \o <<Digits[((h \div 10) % 10) + 1], Digits[(h % 10) + 1]>>

\* Display without the formatting: str(val) as it is.
DisplayStr(val) == str(val)

\* The text an output statement appends for a value (lines 99-108): two
\* decimals for a float that is not whole, the integer numeral for a whole
\* number, str(val) where float(val) raises.
Display(val) ==
  IF val.t = "tiny" THEN (IF val.n < 0 THEN <<"-">> ELSE <<>>) \o <<"0", ".", "0", "0">>
  ELSE IF val.t = "float" /\ ~IsWhole(val) THEN Format2f(val.n)
  ELSE IF IsNumber(val) THEN str(IntVal(val.n \div 8))
  ELSE str(val)

\* ------------------------------------------ the statements of parse_and_run

\* What one statement leaves: the store, the diagnostics, the outputs, and
\* whether an exception escaped parse_and_run.
Left(vs, es, os, raised) == [vars |-> vs, errors |-> es, outputs |-> os, raised |-> raised]

\* Store with the value given to every variable of the store.
StoreSpills(vs, name, typ, val) ==
  [k \in DOMAIN vs \cup {name} |->
     IF k = name THEN [typ |-> typ, val |-> val] ELSE [typ |-> vs[k].typ, val |-> val]]

\* self.vars[name] = (typ, val)
Store(vs, name, typ, val) ==
  [k \in DOMAIN vs \cup {name} |-> IF k = name THEN [typ |-> typ, val |-> val] ELSE vs[k]]

\* DeclStmt with the redeclaration taking effect: the diagnostic is recorded
\* and the variable is declared anew.
DeclStmtOverwrites(name, typ, lineno, vs, es, os) ==
  IF name \in DOMAIN vs
  THEN Left(Store(vs, name, typ, None), error(es, "redeclared", name, lineno), os, FALSE)
  ELSE Left(Store(vs, name, typ, None), es, os, FALSE)

\* Lines 56-61: the declaration of name as typ.
DeclStmt(name, typ, lineno, vs, es, os) ==
  IF name \in DOMAIN vs
  THEN Left(vs, error(es, "redeclared", name, lineno), os, FALSE)
  ELSE Left(Store(vs, name, typ, None), es, os, FALSE)

\* Coerce with the variable taking the type of the value it is given: the
\* value is stored as evaluated and the variable is retyped after it.
CoerceRetypes(name, typ, r, lineno, vs, es, os) ==
  IF ~r.ok THEN
    Left(vs, error(es, r.fault.kind, r.fault.arg, lineno), os, FALSE)
  ELSE IF ~IsNumber(r.val) THEN Left(vs, error(es, "convert", name, lineno), os, FALSE)
  ELSE Left(Store(vs, name, IF r.val.t = "int" THEN integer ELSE double, r.val),
            es, os, FALSE)

\* Lines 73-84 (and 138-147), on the outcome r of eval_expr: a failed
\* evaluation ends the statement; int(round(float(val))) for an integer
\* target, where a value float() rejects is the diagnostic; float(val) for a
\* double target, where the TypeError of such a value is caught by nothing.
Coerce(name, typ, r, lineno, vs, es, os) ==
  IF ~r.ok THEN
    Left(vs, error(es, r.fault.kind, r.fault.arg, lineno), os, FALSE)
  ELSE IF typ = integer THEN
    IF IsNumber(r.val)
    THEN Left(Store(vs, name, typ, int_round(r.val)), es, os, FALSE)
    ELSE Left(vs, error(es, "convert", name, lineno), os, FALSE)
  ELSE
    IF IsNumber(r.val)
    THEN Left(Store(vs, name, typ, float(r.val)), es, os, FALSE)
    ELSE Left(vs, es, os, TRUE)

\* AssignStmt with the expression evaluated before the target is looked up.
AssignStmtEvaluatesFirst(name, expr, lineno, vs, es, os) ==
  IF ~eval_expr(expr, vs).ok \/ name \in DOMAIN vs
  THEN Coerce(name, IF name \in DOMAIN vs THEN vs[name].typ ELSE integer,
              eval_expr(expr, vs), lineno, vs, es, os)
  ELSE Left(vs, error(es, "undeclared_assign", name, lineno), os, FALSE)

\* Lines 65-85: the assignment of expr to name.
AssignStmt(name, expr, lineno, vs, es, os) ==
  IF name \notin DOMAIN vs
  THEN Left(vs, error(es, "undeclared_assign", name, lineno), os, FALSE)
  ELSE Coerce(name, vs[name].typ, eval_expr(expr, vs), lineno, vs, es, os)

\* OutputStmt with the text put in front of the outputs.
OutputStmtPrepends(payload, lineno, vs, es, os) ==
  IF Len(payload) >= 1 /\ payload[1] = "\"" /\ payload[Len(payload)] = "\""
  THEN Left(vs, es, <<SubSeq(payload, 2, Len(payload) - 1)>> \o os, FALSE)
  ELSE
    LET r == eval_expr(payload, vs)
    IN  IF ~r.ok THEN Left(vs, error(es, r.fault.kind, r.fault.arg, lineno), os, FALSE)
        ELSE Left(vs, es, <<str(r.val)>> \o os, FALSE)

\* Show with a failed evaluation output all the same: the diagnostic is
\* recorded and str(None) is appended.
ShowsFailure(r, lineno, vs, es, os) ==
  IF ~r.ok
  THEN Left(vs, error(es, r.fault.kind, r.fault.arg, lineno),
            Append(os, <<"N", "o", "n", "e">>), FALSE)
  ELSE Left(vs, es, Append(os, Display(r.val)), FALSE)

\* Lines 95-108 (and 157-167), on the outcome r of eval_expr: a failed
\* evaluation ends the statement, a value is appended as Display gives it.
Show(r, lineno, vs, es, os) ==
  IF ~r.ok THEN Left(vs, error(es, r.fault.kind, r.fault.arg, lineno), os, FALSE)
  ELSE Left(vs, es, Append(os, Display(r.val)), FALSE)

\* Lines 89-108: the output statement.
OutputStmt(payload, lineno, vs, es, os) ==
  IF Len(payload) >= 1 /\ payload[1] = "\"" /\ payload[Len(payload)] = "\""
  THEN Left(vs, es, Append(os, SubSeq(payload, 2, Len(payload) - 1)), FALSE)
  ELSE Show(eval_expr(payload, vs), lineno, vs, es, os)

\* Lines 130-148: the assignment inside a conditional.
IfAssignStmt(name, expr, lineno, vs, es, os) ==
  IF name \notin DOMAIN vs
  THEN Left(vs, error(es, "undeclared_assign", name, lineno), os, FALSE)
  ELSE Coerce(name, vs[name].typ, eval_expr(expr, vs), lineno, vs, es, os)

\* Lines 152-167: the output statement inside a conditional.
IfOutputStmt(payload, lineno, vs, es, os) ==
  IF Len(payload) >= 1 /\ payload[1] = "\"" /\ payload[Len(payload)] = "\""
  THEN Left(vs, es, Append(os, SubSeq(payload, 2, Len(payload) - 1)), FALSE)
  ELSE Show(eval_expr(payload, vs), lineno, vs, es, os)

\* IfStmt without the 'continue' of line 117: a condition that fails is
\* recorded and the statement is checked for its ';' all the same.
IfStmtKeepsGoing(cond, stmt, lineno, vs, es, os) ==
  LET c == eval_condition(cond, vs)
      ma == RE_ASSIGN(stmt)
      mo == RE_OUTPUT(stmt)
      es1 == IF c.ok THEN es ELSE error(es, c.fault.kind, c.fault.arg, lineno)
  IN  IF c.ok /\ ~c.res THEN Left(vs, es, os, FALSE)
      ELSE IF stmt = <<>> \/ stmt[Len(stmt)] # ";"
      THEN Left(vs, error(es1, "if_semicolon", stmt, lineno), os, FALSE)
      ELSE IF ~c.ok THEN Left(vs, es1, os, FALSE)
      ELSE IF ma.ok THEN IfAssignStmt(ma.g1, strip(ma.g2), lineno, vs, es, os)
      ELSE IF mo.ok THEN IfOutputStmt(strip(mo.g1), lineno, vs, es, os)
      ELSE Left(vs, error(es, "if_unsupported", stmt, lineno), os, FALSE)

\* IfStmt with the statement executed whatever the condition evaluates to.
IfStmtIgnoresResult(cond, stmt, lineno, vs, es, os) ==
  LET c == eval_condition(cond, vs)
      ma == RE_ASSIGN(stmt)
      mo == RE_OUTPUT(stmt)
  IN  IF ~c.ok THEN Left(vs, error(es, c.fault.kind, c.fault.arg, lineno), os, FALSE)
      ELSE IF stmt = <<>> \/ stmt[Len(stmt)] # ";"
      THEN Left(vs, error(es, "if_semicolon", stmt, lineno), os, FALSE)
      ELSE IF ma.ok THEN IfAssignStmt(ma.g1, strip(ma.g2), lineno, vs, es, os)
      ELSE IF mo.ok THEN IfOutputStmt(strip(mo.g1), lineno, vs, es, os)
      ELSE Left(vs, error(es, "if_unsupported", stmt, lineno), os, FALSE)

\* Lines 126-169, on the matches ma of RE_ASSIGN and mo of RE_OUTPUT with
\* the statement of a conditional.
IfInner(stmt, ma, mo, lineno, vs, es, os) ==
  IF ma.ok THEN IfAssignStmt(ma.g1, strip(ma.g2), lineno, vs, es, os)
  ELSE IF mo.ok THEN IfOutputStmt(strip(mo.g1), lineno, vs, es, os)
  ELSE Left(vs, error(es, "if_unsupported", stmt, lineno), os, FALSE)

\* Lines 116-170, on the outcome c of eval_condition.  The statement is
\* looked at only when the condition is true.
IfCond(c, stmt, lineno, vs, es, os) ==
  IF ~c.ok THEN Left(vs, error(es, c.fault.kind, c.fault.arg, lineno), os, FALSE)
  ELSE IF ~c.res THEN Left(vs, es, os, FALSE)
  ELSE IF stmt = <<>> \/ stmt[Len(stmt)] # ";"
  THEN Left(vs, error(es, "if_semicolon", stmt, lineno), os, FALSE)
  ELSE IfInner(stmt, RE_ASSIGN(stmt), RE_OUTPUT(stmt), lineno, vs, es, os)

\* Lines 113-170: the conditional.
IfStmt(cond, stmt, lineno, vs, es, os) ==
  IfCond(eval_condition(cond, vs), stmt, lineno, vs, es, os)

\* ------------------------------------------------------- source lines

Sp == <<" ">>

X == <<"x">>

D == <<"d">>

U == <<"u">>

Semi == <<";">>

Becomes == <<" ", ":", "=", " ">>

OutputOp == <<"o", "u", "t", "p", "u", "t", " ", "<", "<", " ">>

Hi == <<"\"", "h", "i", "\"">>

Lit25 == <<"2", ".", "5">>

TenLess3 == <<"1", "0", " ", "-", " ", "3">>

Unit == <<"(", ")">>

XTimes2 == <<"x", " ", "*", " ", "2">>

\* The expression texts assigned to x, to d and output.
ExprsX ==
  { Lit25, <<"-">> \o Lit25, TenLess3, <<"x", " ", "+", " ", "0", ".", "5">>, Unit, D }

ExprsD ==
  { Lit25, TenLess3, Unit, X, <<"d", " ", "-", " ", "0", ".", "1", "2", "5">>, XTimes2,
    <<"0", ".", "0", "0", "0", "0", "1">> }

Payloads ==
  { X, D, Hi, XTimes2, <<"5", " ", "-", " ", "x">>, <<"u", " ", "+", " ", "x">>,
    <<"d", " ", "-", " ", "0", ".", "1", "2", "5">>, Unit }

DeclLines ==
  { X \o <<":", " ">> \o integer \o Semi,
    D \o <<":", " ">> \o double \o Semi,
    X \o <<" ", ":", " ", "D", "o", "u", "b", "l", "e", " ", ";">> }

AssignLines ==
  { X \o Becomes \o e \o Semi : e \in ExprsX }
    \cup { D \o Becomes \o e \o Semi : e \in ExprsD }
    \cup { U \o Becomes \o <<"1">> \o Semi,
           U \o <<" ", "=", " ">> \o XTimes2 \o Semi }

OutputLines == { OutputOp \o e \o Semi : e \in Payloads }

\* The condition texts of the conditional lines: three that evaluate, given
\* values, and two that RE_COND or eval_expr rejects.
Conds ==
  { <<"1", " ", "<", " ", "2">>,
    <<"2", " ", "<", " ", "1">>,
    <<"d", " ", ">", " ", "x">> }

BadConds ==
  { <<"x", " ", ">", "=", " ", "5">>,
    X }

\* A condition text with a parenthesized operand.
ParenConds ==
  { <<"(", "2", ")", " ", ">", " ", "1">> }

\* The statement texts of the conditional lines.
Inner ==
  { X \o Becomes \o Lit25 \o Semi,
    D \o Becomes \o Unit \o Semi,
    U \o Becomes \o <<"1">> \o Semi,
    OutputOp \o D \o Semi,
    OutputOp \o XTimes2 \o Semi,
    X \o Becomes \o <<"1">>,
    X \o <<":", " ">> \o integer \o Semi }

IfLine(c, st) == <<"i", "f", " ", "(">> \o c \o <<")", " ">> \o st

IfLines ==
  { IfLine(c, st) : c \in Conds, st \in Inner }
    \cup { IfLine(c, st) : c \in BadConds,
                           st \in {OutputOp \o D \o Semi, X \o Becomes \o <<"1">>} }
    \cup { IfLine(c, OutputOp \o Hi \o Semi) : c \in ParenConds }

OtherLines ==
  { <<>>,
    <<" ", "\t">>,
    <<"x", " ", "+", " ", "1", ";">> }

\* The lines a source text of the model is made of.
SourceLines == DeclLines \cup AssignLines \cup OutputLines \cup IfLines \cup OtherLines

\* Which statement parse_and_run takes the stripped line l for: the first
\* pattern that matches, in the order of lines 51-172.
Classify(l) ==
  IF l = <<>> THEN "blank"
  ELSE IF RE_DECL(l).ok THEN "declaration"
  ELSE IF RE_ASSIGN(l).ok THEN "assignment"
  ELSE IF RE_OUTPUT(l).ok THEN "output"
  ELSE IF RE_IF(l).ok THEN "if"
  ELSE "unrecognized"

\* The source lines by the statement they are taken for.
Kind == [raw \in SourceLines |-> Classify(strip(raw))]

\* -------------------------------------------------------------- the run

\* Interpreter.__init__ (nothing declared, recorded or output), main() about
\* to call parse_and_run.
Init ==
  /\ pc = "run"
  /\ i = 0
  /\ line = <<>>
  /\ vars = <<>>
  /\ errors = <<>>
  /\ outputs = <<>>
  /\ stdout = [outputs |-> <<>>, status |-> "", diagnostics |-> <<>>]
  /\ first = [kept |-> FALSE, over |-> FALSE, steps |-> <<>>, end |-> <<>>]

\* The history of a first run that is kept, with the iteration on raw added.
Kept(raw, left) ==
  IF first.kept /\ ~first.over
  THEN [first EXCEPT !.steps = Append(@, [line |-> raw, vars |-> left.vars,
                                          errors |-> left.errors,
                                          outputs |-> left.outputs,
                                          raised |-> left.raised])]
  ELSE first

\* One iteration of the loop of parse_and_run on the raw line, which stmt
\* (a statement of the stripped line, of the line number and of the state)
\* handles; an exception that escapes ends main().
Iterate(raw, left) ==
  /\ i' = i + 1
  /\ line' = raw
  /\ vars' = left.vars
  /\ errors' = left.errors
  /\ outputs' = left.outputs
  /\ pc' = IF left.raised THEN "aborted" ELSE pc
  /\ first' = Kept(raw, left)
  /\ UNCHANGED stdout

\* The loop has a further line to take.
MoreLines == pc = "run" /\ i < MaxLines

\* Lines 50-52: an empty line is skipped.
Blank ==
  /\ MoreLines
  /\ \E raw \in SourceLines :
       /\ Kind[raw] = "blank"
       /\ Iterate(raw, Left(vars, errors, outputs, FALSE))

\* Lines 54-61.
Declaration ==
  /\ MoreLines
  /\ \E raw \in SourceLines :
       LET m == RE_DECL(strip(raw))
       IN  /\ Kind[raw] = "declaration"
           /\ Iterate(raw, DeclStmt(m.g1, m.g2, i + 1, vars, errors, outputs))

\* Lines 63-85.
Assignment ==
  /\ MoreLines
  /\ \E raw \in SourceLines :
       LET m == RE_ASSIGN(strip(raw))
       IN  /\ Kind[raw] = "assignment"
           /\ Iterate(raw, AssignStmt(m.g1, strip(m.g2), i + 1, vars, errors, outputs))

\* Lines 87-109.
Output ==
  /\ MoreLines
  /\ \E raw \in SourceLines :
       LET m == RE_OUTPUT(strip(raw))
       IN  /\ Kind[raw] = "output"
           /\ Iterate(raw, OutputStmt(strip(m.g1), i + 1, vars, errors, outputs))

\* Lines 111-170.
If ==
  /\ MoreLines
  /\ \E raw \in SourceLines :
       LET m == RE_IF(strip(raw))
       IN  /\ Kind[raw] = "if"
           /\ Iterate(raw, IfStmt(strip(m.g1), strip(m.g2), i + 1, vars, errors, outputs))

\* Line 172.
Unrecognized ==
  /\ MoreLines
  /\ \E raw \in SourceLines :
       /\ Kind[raw] = "unrecognized"
       /\ Iterate(raw, Left(vars, error(errors, "unrecognized", strip(raw), i + 1),
                            outputs, FALSE))

\* main(), lines 269-280, once parse_and_run has returned at the end of the
\* source text: the outputs are printed, then the verdict and the
\* diagnostics.
Report ==
  /\ pc = "run"
  /\ pc' = "done"
  /\ stdout' = [outputs |-> outputs,
                status |-> IF errors # <<>> THEN "ERROR" ELSE "NO ERROR(S) FOUND",
                diagnostics |-> errors]
  /\ UNCHANGED <<i, line, vars, errors, outputs, first>>

Next ==
  \/ Blank
  \/ Declaration
  \/ Assignment
  \/ Output
  \/ If
  \/ Unrecognized
  \/ Report

Spec == Init /\ [][Next]_state

\* ------------------------------------------------- the same text run twice

\* Interpreter with the store held by the class: a new interpreter finds the
\* variables of the one constructed before.
InterpreterSharesVars(old) == [vars |-> old.vars, errors |-> <<>>, outputs |-> <<>>]

\* Interpreter.__init__ (lines 35-39): the fields of a new interpreter,
\* whatever the fields old of an interpreter constructed before.
Interpreter(old) == [vars |-> <<>>, errors |-> <<>>, outputs |-> <<>>]

\* A first run whose steps are kept, for a second run over the same text.
InitTwice ==
  /\ pc = "run"
  /\ i = 0
  /\ line = <<>>
  /\ vars = <<>>
  /\ errors = <<>>
  /\ outputs = <<>>
  /\ stdout = [outputs |-> <<>>, status |-> "", diagnostics |-> <<>>]
  /\ first = [kept |-> TRUE, over |-> FALSE, steps |-> <<>>, end |-> <<>>]

\* The lines a source text that is run twice is made of: some of every
\* statement, with and without a diagnostic.
TwiceLines ==
  { X \o <<":", " ">> \o integer \o Semi,
    D \o <<":", " ">> \o double \o Semi,
    X \o Becomes \o Lit25 \o Semi,
    X \o Becomes \o <<"x", " ", "+", " ", "0", ".", "5">> \o Semi,
    D \o Becomes \o X \o Semi,
    D \o Becomes \o Unit \o Semi,
    OutputOp \o X \o Semi,
    OutputOp \o Hi \o Semi,
    OutputOp \o XTimes2 \o Semi,
    IfLine(<<"1", " ", "<", " ", "2">>, X \o Becomes \o Lit25 \o Semi),
    IfLine(<<"d", " ", ">", " ", "x">>, OutputOp \o D \o Semi),
    IfLine(X, OutputOp \o D \o Semi),
    <<>>,
    <<"x", " ", "+", " ", "1", ";">> }

\* A step of the first run, over a text of at most MaxTwice lines of
\* TwiceLines.
FirstRun ==
  /\ ~first.over
  /\ \/ /\ i < MaxTwice
        /\ \E l \in TwiceLines : i' = i + 1 /\ line' = l /\ Next
     \/ Report

\* The first run has ended (reported or aborted): main() is started again on
\* the same source text and constructs its interpreter.
Again ==
  /\ ~first.over
  /\ pc \in {"done", "aborted"}
  /\ first' = [first EXCEPT !.over = TRUE, !.end = <<pc, stdout>>]
  /\ pc' = "run"
  /\ i' = 0
  /\ line' = <<>>
  /\ vars' = Interpreter([vars |-> vars, errors |-> errors, outputs |-> outputs]).vars
  /\ errors' = Interpreter([vars |-> vars, errors |-> errors, outputs |-> outputs]).errors
  /\ outputs' = Interpreter([vars |-> vars, errors |-> errors, outputs |-> outputs]).outputs
  /\ stdout' = [outputs |-> <<>>, status |-> "", diagnostics |-> <<>>]

\* A step of the second run: the loop takes the line the first run took at
\* the same place, and main() reports when the text is exhausted.
SecondRun ==
  /\ first.over
  /\ IF i < Len(first.steps)
     THEN i' = i + 1 /\ line' = first.steps[i + 1].line /\ Next
     ELSE Report

NextTwice ==
  \/ FirstRun
  \/ Again
  \/ SecondRun

SpecTwice == InitTwice /\ [][NextTwice]_state

\* ----------------------------------------------------------- the claims

NoStmt == [form |-> "none", name |-> <<>>, text |-> <<>>]

\* The condition text of each conditional source line.
CondOf ==
  [raw \in SourceLines |->
     IF Kind[raw] = "if" THEN strip(RE_IF(strip(raw)).g1) ELSE <<>>]

\* The statement text of each conditional source line.
StmtOf ==
  [raw \in SourceLines |->
     IF Kind[raw] = "if" THEN strip(RE_IF(strip(raw)).g2) ELSE <<>>]

\* The statement each source line holds: the assignment or output statement
\* the line is, or the complete assignment or output statement that follows
\* the condition of a conditional.  name is the target of an assignment,
\* text the expression or the payload.
Body ==
  [raw \in SourceLines |->
     LET st == IF Kind[raw] = "if" THEN StmtOf[raw] ELSE strip(raw)
         whole == \/ Kind[raw] \in {"assignment", "output"}
                  \/ Kind[raw] = "if" /\ st # <<>> /\ st[Len(st)] = ";"
     IN  IF whole /\ RE_ASSIGN(st).ok
         THEN [form |-> "assignment", name |-> RE_ASSIGN(st).g1,
               text |-> strip(RE_ASSIGN(st).g2)]
         ELSE IF whole /\ RE_OUTPUT(st).ok
         THEN [form |-> "output", name |-> <<>>, text |-> strip(RE_OUTPUT(st).g1)]
         ELSE NoStmt]

\* The condition of the conditional line raw evaluates to b in the store vs.
CondIs(raw, vs, b) ==
  \E c \in {eval_condition(CondOf[raw], vs)} : c.ok /\ c.res = b

\* The statement that taking the raw line in the store vs executes: the
\* statement the line is, or the statement of a conditional whose condition
\* evaluates to true.
Stmt(raw, vs) ==
  IF Kind[raw] = "if" /\ ~CondIs(raw, vs, TRUE) THEN NoStmt ELSE Body[raw]

\* The step takes one more source line.
TakesLine == i' = i + 1

\* The whole number nearest to n eighths, a tie going away from zero.
HalfAway(n) == IF n >= 0 THEN (n + 4) \div 8 ELSE -((4 - n) \div 8)

\* C1: every executed assignment to a declared Integer variable whose
\* expression evaluates to a number v stores v rounded to the nearest whole
\* number, ties away from zero (2.5 stores 3, -2.5 stores -3).
C1_IntegerAssignRoundsHalfAway ==
  [][TakesLine => \A raw \in {line'} :
       LET a == Stmt(raw, vars)
           r == eval_expr(a.text, vars)
       IN  ( /\ a.form = "assignment"
             /\ a.name \in DOMAIN vars
             /\ vars[a.name].typ = integer
             /\ r.ok
             /\ IsNumber(r.val) )
           => vars'[a.name].val = IntVal(HalfAway(r.val.n))]_state

\* C2: a declaration of a name that is already declared appends exactly one
\* Redeclared diagnostic carrying its own line number and leaves the store
\* as it was: the variable keeps the type of its first declaration.
C2_RedeclarationKeepsFirstType ==
  [][TakesLine => \A raw \in {line'} :
       (Kind[raw] = "declaration" /\ RE_DECL(strip(raw)).g1 \in DOMAIN vars)
       => /\ Len(errors') = Len(errors) + 1
          /\ SubSeq(errors', 1, Len(errors)) = errors
          /\ errors'[Len(errors')].kind = "redeclared"
          /\ errors'[Len(errors')].line = i'
          /\ vars' = vars]_state

\* C2's case: x, declared integer on an earlier line, has just been declared
\* double, and is still an integer variable.
C2_Witness ==
  /\ Kind[line] = "declaration"
  /\ RE_DECL(strip(line)).g1 = X
  /\ RE_DECL(strip(line)).g2 = double
  /\ errors # <<>>
  /\ errors[Len(errors)] = Diag(i, "redeclared", X)
  /\ vars[X].typ = integer

\* The positions of expr where a name starts: a letter at a word boundary.
NameStarts(expr) ==
  {p \in 1..Len(expr) : expr[p] \in Letter /\ (p = 1 \/ ~IsWord(expr[p - 1]))}

NameAt(expr, p) == SubSeq(expr, p, IdentEnd(expr, p) - 1)

\* expr references a declared variable that has never been assigned.
RefsUnset(expr, vs) ==
  \E p \in NameStarts(expr) :
    NameAt(expr, p) \in DOMAIN vs /\ vs[NameAt(expr, p)].val = None

\* A name that is undeclared stands in expr before every unset variable.
UndeclaredFirst(expr, vs) ==
  \E p \in NameStarts(expr) :
    /\ NameAt(expr, p) \notin DOMAIN vs
    /\ \A q \in NameStarts(expr) :
         (NameAt(expr, q) \in DOMAIN vs /\ vs[NameAt(expr, q)].val = None) => p < q

\* payload is a string literal
IsString(payload) ==
  Len(payload) >= 1 /\ payload[1] = "\"" /\ payload[Len(payload)] = "\""

\* The expressions that taking the raw line in the store vs evaluates: the
\* left side of a condition, its right side once the left has a value, and
\* the expression of the executed statement (the right-hand side of an
\* assignment to a declared variable, a payload that is no string).
Evaluated(raw, vs) ==
  LET c == RE_COND(CondOf[raw])
      a == Stmt(raw, vs)
  IN  (IF Kind[raw] = "if" /\ c.ok
       THEN {strip(c.g1)} \cup (IF eval_expr(strip(c.g1), vs).ok THEN {strip(c.g3)} ELSE {})
       ELSE {})
      \cup (IF a.form = "assignment" /\ a.name \in DOMAIN vs THEN {a.text} ELSE {})
      \cup (IF a.form = "output" /\ ~IsString(a.text) THEN {a.text} ELSE {})

\* The step appends exactly one diagnostic, of one of the kinds, for the
\* line it takes.
Records(kinds) ==
  /\ Len(errors') = Len(errors) + 1
  /\ SubSeq(errors', 1, Len(errors)) = errors
  /\ errors'[Len(errors')].line = i'
  /\ errors'[Len(errors')].kind \in kinds

\* C3 as claimed: an evaluated expression that references a declared
\* variable that was never assigned makes the line record
\* UsedBeforeAssignment, and nothing is stored or output.
C3_UnsetAlwaysUsedBeforeAssignment ==
  [][TakesLine => \A raw \in {line'} :
       (\E e \in Evaluated(raw, vars) : RefsUnset(e, vars))
       => /\ Records({"used_before_assignment"})
          /\ vars' = vars
          /\ outputs' = outputs]_state

\* C3 as amended: such a line records exactly one diagnostic and produces no
\* value (nothing is stored, nothing is output, the run goes on); the
\* diagnostic is UsedBeforeAssignment unless the expression holds an illegal
\* character (IllegalCharacter) or an undeclared name stands before the
\* unset variable (Undeclared).
C3_UnsetNeverYieldsValue ==
  [][TakesLine => \A raw \in {line'} :
       \A e \in Evaluated(raw, vars) :
         RefsUnset(e, vars)
           => /\ Records({IF \E k \in 1..Len(e) : e[k] \notin Legal THEN "illegal_char"
                          ELSE IF UndeclaredFirst(e, vars) THEN "undeclared_in_expr"
                          ELSE "used_before_assignment"})
              /\ vars' = vars
              /\ outputs' = outputs
              /\ pc' = pc]_state

\* C3's case: d, declared and never assigned, has just been used inside the
\* payload 'd - 0.125'; the line recorded UsedBeforeAssignment and output
\* nothing.
C3_Witness ==
  /\ line = OutputOp \o <<"d", " ", "-", " ", "0", ".", "1", "2", "5">> \o Semi
  /\ D \in DOMAIN vars
  /\ vars[D].val = None
  /\ errors = <<Diag(i, "used_before_assignment", D)>>
  /\ outputs = <<>>

\* C4: the diagnostics hold at most one entry per source line, each with
\* the number of the line that produced it, in strictly increasing order;
\* a step appends at most one, for the line it takes.
C4_OneDiagnosticPerLineInOrder ==
  /\ [](\A k \in 1..Len(errors) :
          /\ errors[k].line \in 1..i
          /\ k > 1 => errors[k - 1].line < errors[k].line)
  /\ [][errors' = errors \/ (TakesLine /\ Records({errors'[Len(errors')].kind}))]_state

\* C4's case: a conditional whose condition and whose statement are both
\* faulty has been taken, after an earlier faulty line, and has one
\* diagnostic.
C4_Witness ==
  /\ line = IfLine(<<"x", " ", ">", "=", " ", "5">>, X \o Becomes \o <<"1">>)
  /\ Len(errors) >= 2
  /\ Cardinality({k \in 1..Len(errors) : errors[k].line = i}) = 1
  /\ errors[Len(errors)].line = i

\* C5: no statement stops the run before the last line has been processed.
C5_RunNeverAborts == pc # "aborted"

\* C6: an executed assignment whose target is not in the store records
\* exactly one 'undeclared' diagnostic at its line; its expression is not
\* evaluated, the variable is not created and nothing is output.
C6_UndeclaredTargetOnlyDiagnosed ==
  [][TakesLine => \A raw \in {line'} :
       LET a == Stmt(raw, vars)
       IN  (a.form = "assignment" /\ a.name \notin DOMAIN vars)
           => /\ errors' = Append(errors, Diag(i', "undeclared_assign", a.name))
              /\ vars' = vars
              /\ outputs' = outputs
              /\ pc' = pc]_state

\* C6's case: 'u = x * 2;' has been taken with u undeclared; the one
\* diagnostic is the undeclared target, not the illegal '*' of the
\* expression, and u is still undeclared.
C6_Witness ==
  /\ line = U \o <<" ", "=", " ">> \o XTimes2 \o Semi
  /\ errors = <<Diag(i, "undeclared_assign", U)>>
  /\ U \notin DOMAIN vars
  /\ outputs = <<>>

\* The statement text of a conditional is no complete assignment or output
\* statement, or lacks its ';'.
Malformed(stmt) ==
  \/ stmt = <<>>
  \/ stmt[Len(stmt)] # ";"
  \/ ~RE_ASSIGN(stmt).ok /\ ~RE_OUTPUT(stmt).ok

\* C7: a conditional line whose statement is malformed records a diagnostic
\* for that line, whatever its condition evaluates to.
C7_MalformedBodyAlwaysDiagnosed ==
  [][TakesLine => \A raw \in {line'} :
       (/\ Kind[raw] = "if"
        /\ eval_condition(CondOf[raw], vars).ok
        /\ Malformed(StmtOf[raw]))
       => /\ Len(errors') = Len(errors) + 1
          /\ errors'[Len(errors')].line = i']_state

\* C8: a conditional whose condition evaluates to false leaves the store
\* and the outputs as they were.
C8_FalseConditionNoEffect ==
  [][TakesLine => \A raw \in {line'} :
       (Kind[raw] = "if" /\ CondIs(raw, vars, FALSE))
       => vars' = vars /\ outputs' = outputs]_state

\* C8's case: 'if (2 < 1) x := 2.5;' has been taken with x holding 7, and x
\* still holds 7.
C8_Witness ==
  /\ line = IfLine(<<"2", " ", "<", " ", "1">>, X \o Becomes \o Lit25 \o Semi)
  /\ X \in DOMAIN vars
  /\ vars[X].val = IntVal(7)
  /\ outputs = <<>>

\* The text t without its sign.
Unsigned(t) == IF t # <<>> /\ t[1] = "-" THEN Tail(t) ELSE t

IsDigits(t) == t # <<>> /\ \A k \in 1..Len(t) : t[k] \in Digit

\* t is the plain integer numeral of k: digits only, after the sign.
WholeText(t, k) ==
  LET u == Unsigned(t)
  IN  /\ IsDigits(u)
      /\ Len(u) = 1 \/ u[1] # "0"
      /\ k = IF u = t THEN DigitsVal(u) ELSE -DigitsVal(u)

\* t is n eighths with exactly two decimal digits: digits, a point and two
\* digits, within half a hundredth of the value.
TwoDecimalText(t, n) ==
  LET u == Unsigned(t)
      ip == SubSeq(u, 1, Len(u) - 3)
      fp == SubSeq(u, Len(u) - 1, Len(u))
      h == 100 * DigitsVal(ip) + DigitsVal(fp)
  IN  /\ Len(u) >= 4
      /\ IsDigits(ip)
      /\ u[Len(u) - 2] = "."
      /\ IsDigits(fp)
      /\ (u = t) = (n > 0)
      /\ Abs(8 * h - 100 * Abs(n)) <= 4

C10_OutputsAppendOnly ==
  [][/\ TakesLine => \A raw \in {line'} :
          LET a == Stmt(raw, vars)
          IN  IF a.form = "output" /\ (IsString(a.text) \/ eval_expr(a.text, vars).ok)
              THEN /\ Len(outputs') = Len(outputs) + 1
                   /\ SubSeq(outputs', 1, Len(outputs)) = outputs
                   /\ IsString(a.text) =>
                        outputs'[Len(outputs')] = SubSeq(a.text, 2, Len(a.text) - 1)
                   /\ errors' = errors
              ELSE outputs' = outputs
     /\ ~TakesLine => outputs' = outputs
     /\ pc' = "done" => stdout'.outputs = outputs]_state

\* C10's case: two output statements with a faulty line between them have
\* run and main() has printed both texts, in line order, before ERROR.
C10_Witness ==
  /\ pc = "done"
  /\ outputs = << <<"h", "i">>, <<"(", ")">> >>
  /\ Len(errors) = 1
  /\ errors[1].line = 2
  /\ stdout.outputs = outputs
  /\ stdout.status = "ERROR"

\* C11: the second of two runs over the same source text, started from a
\* new interpreter, begins with nothing declared, recorded or output, goes
\* through the store, the diagnostics and the outputs the first run went
\* through, line by line, ends as the first run ended and prints what the
\* first run printed.
C11_TwoRunsAgree ==
  first.over =>
    /\ i <= Len(first.steps)
    /\ i = 0 => vars = <<>> /\ errors = <<>> /\ outputs = <<>>
    /\ i >= 1 => /\ line = first.steps[i].line
                 /\ vars = first.steps[i].vars
                 /\ errors = first.steps[i].errors
                 /\ outputs = first.steps[i].outputs
                 /\ (pc = "aborted") = first.steps[i].raised
    /\ pc = "done" => <<pc, stdout>> = first.end
    /\ pc = "aborted" => first.end[1] = "aborted"

\* C11's case: the second run of a program of two output statements without
\* diagnostics has reported, and has printed what the first run printed.
C11_Witness ==
  /\ first.over
  /\ pc = "done"
  /\ i = Len(first.steps)
  /\ Len(outputs) = 2
  /\ outputs = first.steps[i].outputs
  /\ stdout.status = "NO ERROR(S) FOUND"
  /\ stdout = first.end[2]

\* C12: the store maps each name to one variable, of type integer or double,
\* and no step removes a variable or changes the declared type of one: not
\* an assignment (top-level or in a conditional), a redeclaration, an output
\* or a line that fails.
C12_DeclaredTypeNeverChanges ==
  /\ [](\A name \in DOMAIN vars : vars[name].typ \in {integer, double})
  /\ [][\A name \in DOMAIN vars :
          /\ name \in DOMAIN vars'
          /\ vars'[name].typ = vars[name].typ]_state

\* C12's case: x, declared integer and assigned 2.5, has just been declared
\* anew as Double, and is an integer variable still.
C12_Witness ==
  /\ line = X \o <<" ", ":", " ", "D", "o", "u", "b", "l", "e", " ", ";">>
  /\ X \in DOMAIN vars
  /\ vars[X].typ = integer
  /\ vars[X].val = IntVal(2)
  /\ Len(errors) = 1

\* C13: a step that records a diagnostic appends that one diagnostic and
\* changes nothing else: the store and the outputs are as they were before
\* the line.
C13_FailingLineOnlyAppendsDiagnostic ==
  [][errors' # errors =>
       /\ Len(errors') = Len(errors) + 1
       /\ SubSeq(errors', 1, Len(errors)) = errors
       /\ vars' = vars
       /\ outputs' = outputs]_state

\* C13's case: after an output and a declaration, the third line (which
\* outputs x * 2) has recorded a diagnostic; the output
\* item and the unset x are as they were.
C13_Witness ==
  /\ i = 3
  /\ Len(errors) = 1
  /\ errors[1].line = 3
  /\ outputs = << <<"h", "i">> >>
  /\ X \in DOMAIN vars
  /\ vars[X].val = None
  /\ line = OutputOp \o XTimes2 \o Semi

\* The condition texts and the statement texts the conditional lines of the
\* catalogue are written with.
CondTexts == Conds \cup BadConds \cup ParenConds

StmtTexts == Inner \cup {OutputOp \o Hi \o Semi}

\* What the statement text st leaves as a line of its own, numbered lineno.
TopLevel(st, lineno, vs, es, os) ==
  IF RE_ASSIGN(st).ok
  THEN AssignStmt(RE_ASSIGN(st).g1, strip(RE_ASSIGN(st).g2), lineno, vs, es, os)
  ELSE OutputStmt(strip(RE_OUTPUT(st).g1), lineno, vs, es, os)

\* C14: a step that takes 'if (C) S', where S is an assignment or output
\* statement and the condition C evaluates to true in the store, leaves the
\* store, the outputs and the diagnostics (an escaped exception too) as the
\* line S alone leaves them.
C14_TrueConditionActsAsTopLevel ==
  [][TakesLine => \A raw \in {line'} :
       \A c \in CondTexts, st \in StmtTexts :
         (/\ raw = IfLine(c, st)
          /\ Classify(st) \in {"assignment", "output"}
          /\ \E r \in {eval_condition(c, vars)} : r.ok /\ r.res)
         => \E top \in {TopLevel(st, i + 1, vars, errors, outputs)} :
              /\ vars' = top.vars
              /\ outputs' = top.outputs
              /\ errors' = top.errors
              /\ (pc' = "aborted") = top.raised]_state

\* C15: a step changes the store only by taking a declaration, which adds
\* its name as an unset variable, or by executing an assignment (top-level or
\* in a conditional) without a diagnostic, which changes the variable it
\* names; every other variable keeps its type and value.  Output statements,
\* conditions and failing lines change nothing.
C15_StoreChangedOnlyByDeclAndAssign ==
  [][vars' # vars =>
       /\ TakesLine
       /\ errors' = errors
       /\ \A name \in DOMAIN vars : name \in DOMAIN vars'
       /\ \A raw \in {line'} :
            \/ /\ Kind[raw] = "declaration"
               /\ \E m \in {RE_DECL(strip(raw))} :
                    /\ m.g1 \notin DOMAIN vars
                    /\ DOMAIN vars' = DOMAIN vars \cup {m.g1}
                    /\ vars'[m.g1].val = None
                    /\ \A name \in DOMAIN vars : vars'[name] = vars[name]
            \/ \E a \in {Stmt(raw, vars)} :
                 /\ a.form = "assignment"
                 /\ a.name \in DOMAIN vars
                 /\ DOMAIN vars' = DOMAIN vars
                 /\ \A name \in DOMAIN vars \ {a.name} : vars'[name] = vars[name]]_state

\* C15's case: with x and d declared, 'x := 2.5;' has just been executed; x
\* holds a value and d is unset still.
C15_Witness ==
  /\ line = X \o Becomes \o Lit25 \o Semi
  /\ DOMAIN vars = {X, D}
  /\ vars[X].val = IntVal(2)
  /\ vars[D] = [typ |-> double, val |-> None]
  /\ errors = <<>>

\* expr holds a character that is no letter, digit, '.', '+', '-',
\* parenthesis or white space.
HasIllegal(expr) == \E k \in 1..Len(expr) : expr[k] \notin Legal

\* The expressions the statement of the raw line is written with, evaluated
\* or not: the two sides of a condition, the right-hand side of an executed
\* assignment, a payload that is no string.
Contained(raw, vs) ==
  (IF Kind[raw] = "if" /\ RE_COND(CondOf[raw]).ok
   THEN {strip(RE_COND(CondOf[raw]).g1), strip(RE_COND(CondOf[raw]).g3)}
   ELSE {})
  \cup (IF Stmt(raw, vs).form = "assignment" THEN {Stmt(raw, vs).text} ELSE {})
  \cup (IF Stmt(raw, vs).form = "output" /\ ~IsString(Stmt(raw, vs).text)
        THEN {Stmt(raw, vs).text} ELSE {})

\* C16 as claimed: a line whose statement is written with an expression
\* that holds an illegal character records IllegalCharacter for it, and
\* changes neither the store nor the outputs.
C16_IllegalCharacterAlwaysRejected ==
  [][TakesLine => \A raw \in {line'} :
       \A e \in Contained(raw, vars) :
         HasIllegal(e)
           => /\ Records({"illegal_char"})
              /\ vars' = vars
              /\ outputs' = outputs]_state

\* C16 as amended: an expression that is handed to the evaluator and holds
\* an illegal character makes the line record IllegalCharacter for that
\* expression, whatever names it holds (undeclared or unset), and the line
\* changes neither the store nor the outputs.
C16_EvaluatedIllegalCharacterRejected ==
  [][TakesLine => \A raw \in {line'} :
       \A e \in Evaluated(raw, vars) :
         HasIllegal(e)
           => /\ Records({"illegal_char"})
              /\ errors'[Len(errors')].arg = e
              /\ vars' = vars
              /\ outputs' = outputs
              /\ pc' = pc]_state

\* C16's case: 'd := x * 2;' has been taken with d declared and x unset; the
\* line recorded IllegalCharacter, not UsedBeforeAssignment, and d is unset.
C16_Witness ==
  /\ line = D \o Becomes \o XTimes2 \o Semi
  /\ DOMAIN vars = {X, D}
  /\ vars[X].val = None
  /\ vars[D].val = None
  /\ errors = <<Diag(3, "illegal_char", XTimes2)>>

\* The comparison lit stands somewhere in the condition text cond.
Holds(cond, lit) == \E p \in 1..Len(cond) : At(cond, p, lit)

\* cond is written with '>=' or '<=', or with none of ==, !=, > and <.
OtherOperator(cond) ==
  \/ Holds(cond, <<">", "=">>)
  \/ Holds(cond, <<"<", "=">>)
  \/ ~\E op \in {<<"=", "=">>, <<"!", "=">>, <<">">>, <<"<">>} : Holds(cond, op)

\* C17: a conditional whose condition text is written with an operator other
\* than ==, !=, > and <, or with no comparison at all, records
\* InvalidConditionFormat or UnsupportedOperator for its line and does not
\* execute its statement.
C17_OtherOperatorIsInvalidCondition ==
  [][TakesLine => \A raw \in {line'} :
       (Kind[raw] = "if" /\ OtherOperator(CondOf[raw]))
       => /\ Records({"invalid_cond", "unsupported_op"})
          /\ vars' = vars
          /\ outputs' = outputs]_state

\* Where the operand that starts at p stops: a run of digits, or a name.
OperandEnd(e, p) == IF e[p] \in Digit THEN DigitsEnd(e, p) ELSE IdentEnd(e, p)

\* The operand e[p..q-1] is an integer literal or a variable of the store vs
\* that has a value.
IsOperand(e, p, q, vs) ==
  \/ e[p] \in Digit
  \/ /\ e[p] \in Letter
     /\ SubSeq(e, p, q - 1) \in DOMAIN vs
     /\ vs[SubSeq(e, p, q - 1)].val # None

\* The number, in hundred-thousandths, the operand e[p..q-1] stands for.
OperandVal(e, p, q, vs) ==
  IF e[p] \in Digit THEN Scaled(IntVal(DigitsVal(SubSeq(e, p, q - 1))))
  ELSE Scaled(vs[SubSeq(e, p, q - 1)].val)

\* From position p, e is one operand and then any number of binary '+' or
\* '-' each followed by one operand, with white space anywhere between them.
RECURSIVE IsSum(_, _, _)
IsSum(e, p, vs) ==
  LET a == SkipWs(e, p)
      q == OperandEnd(e, a)
      b == SkipWs(e, q)
  IN  /\ a <= Len(e)
      /\ e[a] \in Digit \cup Letter
      /\ IsOperand(e, a, q, vs)
      /\ \/ b > Len(e)
         \/ e[b] \in {"+", "-"} /\ IsSum(e, b + 1, vs)

\* The left-to-right fold of the sum e from position p, where acc is the
\* fold of the operands before p and sign (1 or -1) the operator before p.
RECURSIVE Fold(_, _, _, _, _)
Fold(e, p, acc, sign, vs) ==
  LET a == SkipWs(e, p)
      q == OperandEnd(e, a)
      b == SkipWs(e, q)
      sum == acc + sign * OperandVal(e, a, q, vs)
  IN  IF b > Len(e) THEN sum
      ELSE Fold(e, b + 1, sum, IF e[b] = "+" THEN 1 ELSE -1, vs)

\* The sums of the claim: '5 - x', '10 - 3 - 2', one operand alone, a
\* variable after a '-' that is written next to it, and sums of both
\* variables.
SumTexts ==
  { <<"5", " ", "-", " ", "x">>,
    <<"1", "0", " ", "-", " ", "3", " ", "-", " ", "2">>,
    <<"7">>,
    X,
    D,
    <<"5", " ", "-", "x">>,
    <<"d", " ", "+", " ", "1">>,
    <<"x", " ", "-", " ", "d", " ", "+", " ", "2">> }

\* C18: in every store the run reaches, every expression built from integer
\* literals and variables that have a value, joined by binary '+' and '-',
\* evaluates, and to the left-to-right fold of its operands with each
\* variable replaced by the value it holds.
C18_SumIsLeftToRightFold ==
  \A e \in SumTexts :
    IsSum(e, 1, vars)
      => \E r \in {eval_expr(e, vars)} :
           /\ r.ok
           /\ IsNumber(r.val)
           /\ Scaled(r.val) = Fold(e, 1, 0, 1, vars)

\* The value val is unset or in the representation of the declared type typ:
\* an int for integer, a float for double.
Represents(typ, val) ==
  \/ val = None
  \/ typ = integer /\ val.t = "int" /\ val.n % 8 = 0
  \/ typ = double /\ val.t \in {"float", "tiny"}

\* C19: in every reachable state every variable is declared integer or
\* double and its value is unset, an int if the variable is integer, a float
\* if it is double; and no step removes a variable from the store or leaves
\* unset a variable that had a value.
C19_ValuesMatchDeclaredType ==
  /\ [](\A k \in DOMAIN vars :
         /\ vars[k].typ \in {integer, double}
         /\ Represents(vars[k].typ, vars[k].val))
  /\ [][\A k \in DOMAIN vars :
         /\ k \in DOMAIN vars'
         /\ vars[k].val # None => vars'[k].val # None]_state

\* C19's case: x, declared integer, was assigned 2.5 and then '()': it holds
\* the int 2, and the second assignment left only its diagnostic.
C19_Witness ==
  /\ line = X \o Becomes \o Unit \o Semi
  /\ DOMAIN vars = {X}
  /\ vars[X] = [typ |-> integer, val |-> IntVal(2)]
  /\ errors = <<Diag(3, "convert", X)>>

====
